---- MODULE Spec2Model ----
(***************************************************************************)
(* labwc: the XWayland view lifecycle (src/src/xwayland.c) and the action  *)
(* dispatch engine (src/src/action.c) as one state machine.                *)
(*                                                                         *)
(* The program state is the "world" W = [views, xsurf, server, calls].     *)
(* Every C function is an operator from a world (and the function's        *)
(* inputs) to the world it leaves behind, so that a handler that calls     *)
(* other handlers is the composition of their operators.  An action of     *)
(* the state machine is one event of the event loop: the library's         *)
(* bookkeeping for the event followed by the whole handler.                *)
(***************************************************************************)
EXTENDS Integers, Sequences, FiniteSets, TLC

\* ------------------------------------------------------------- bounds
\* X windows (and so views) that can exist in one behaviour.
NumViews == 2
\* wlr_surface identities an X window can be given when it is mapped.
MaxSurf == 2
\* Requested and client positions are 0..MaxPos.
MaxPos == 0
\* Requested and acknowledged extents are 1..MaxSize.
MaxSize == 2
\* Workspaces, in left-to-right order 1..NumWorkspaces.
NumWorkspaces == 2
\* The longest action list actions_run is given.
MaxActions == 2

Views == 1..NumViews
Surfs == 1..MaxSurf
Pos == 0..MaxPos
Size == 1..MaxSize

VARIABLES
    views,   \* view id -> struct view (0 is the NULL view pointer)
    xsurf,   \* view id -> the library's struct wlr_xwayland_surface
    server,  \* struct server / seat: focus, stacking order, fault
    calls,   \* requests the last handler made to its collaborators, in order
    last,    \* the last event: its name, its view, and the view before it
    run,     \* the invocation of actions_run in progress, if any
    trace    \* what each action of that invocation did, in order

vars == <<views, xsurf, server, calls, last, run, trace>>

\* ------------------------------------------------------------ helpers

Min(a, b) == IF a < b THEN a ELSE b

\* The C casts (int16_t) and (uint16_t) of a value.
Int16(n) == ((n + 32768) % 65536) - 32768
UInt16(n) == n % 65536

\* A sequence without the element e.
Without(seq, e) == SelectSeq(seq, LAMBDA z : z # e)

\* ------------------------------------------------------- data model

\* struct view_pending_move_resize after calloc.
NoPending ==
    [update_x |-> FALSE, update_y |-> FALSE, x |-> 0, y |-> 0,
     width |-> 0, height |-> 0]

\* calloc(1, sizeof(struct view)): every field zero, no listener linked.
\* alloc is the state of the allocation itself: "none" before the view
\* is created, "live" while it exists, "freed" once view_destroy ran (the
\* other fields of a freed view keep what they held when it was freed).
\* listeners is the set of wl_listeners of the view linked into a signal of
\* its X window; commit counts the links of the commit listener.
ZeroView ==
    [alloc |-> "none", mapped |-> FALSE, been_mapped |-> FALSE,
     x |-> 0, y |-> 0, w |-> 0, h |-> 0, pending |-> NoPending,
     surface |-> 0, scene_node |-> 0, toplevel_handle |-> FALSE,
     ssd_enabled |-> FALSE, maximized |-> FALSE, fullscreen |-> FALSE,
     minimized |-> FALSE, always_on_top |-> FALSE,
     workspace |-> 0, listeners |-> {}, commit |-> 0]

\* The library's object for one X window.  state: "none" (not announced
\* yet), "managed" (a view was created for it), "unmanaged" (an
\* xwayland_unmanaged object was created for it), "gone" (destroyed).
\* surface is xsurface->surface (0: NULL), data is xsurface->data.
NoXSurface ==
    [state |-> "none", mapped |-> FALSE, surface |-> 0, data |-> 0,
     override_redirect |-> FALSE, unmanaged_mapped |-> FALSE]

\* The listeners xwayland_surface_new links, one per signal of the X window.
XwaylandListeners ==
    {"map", "unmap", "destroy", "request_configure", "request_activate",
     "request_minimize", "request_maximize", "request_fullscreen",
     "request_move", "request_resize", "set_title", "set_app_id",
     "set_decorations", "override_redirect"}

\* The listeners handle_destroy unlinks.
DestroyRemoves ==
    {"map", "unmap", "request_move", "request_resize", "request_configure",
     "request_activate", "request_minimize", "request_maximize",
     "request_fullscreen", "set_title", "set_app_id", "set_decorations",
     "override_redirect", "destroy"}

World == [views |-> views, xsurf |-> xsurf, server |-> server, calls |-> calls]

\* A fault ends the process: removing a listener that is not linked
\* dereferences the NULL prev/next of its link.
Fault(W, what) == [W EXCEPT !.server.fault = what]
Faulted(W) == W.server.fault # "none"

Call(W, c) == [W EXCEPT !.calls = Append(@, c)]

\* ------------------------------------------- focus and stacking order
\* (desktop.c, view.c and view-impl-common.c are not among the sources;
\* these follow the contracts the specification gives for them.)

desktop_focused_view(W) == W.server.focused

\* Focus is given to a view only while it is mapped and has a surface;
\* a NULL view clears the focus.
desktop_focus_and_activate_view(W, v) ==
    IF v = 0 THEN [W EXCEPT !.server.focused = 0]
    ELSE IF W.views[v].alloc = "live" /\ W.views[v].mapped
            /\ W.views[v].surface # 0
         THEN [W EXCEPT !.server.focused = v]
         ELSE W

desktop_move_to_front(W, v) ==
    IF v = 0 THEN W
    ELSE [W EXCEPT !.server.order = <<v>> \o Without(@, v)]

\* The frontmost view of the stacking order that is mapped and on the
\* current workspace, 0 when there is none.
desktop_topmost_mapped_view(W) ==
    LET ok(i) == /\ W.views[W.server.order[i]].mapped
                 /\ W.views[W.server.order[i]].workspace
                        = W.server.workspace_current
        idx == {i \in DOMAIN W.server.order : ok(i)}
    IN IF idx = {} THEN 0
       ELSE W.server.order[CHOOSE i \in idx : \A j \in idx : i <= j]

desktop_focus_topmost_mapped_view(W) ==
    LET v == desktop_topmost_mapped_view(W)
    IN desktop_move_to_front(desktop_focus_and_activate_view(W, v), v)

\* The common tail of every backend's map: focus the view and raise it.
view_impl_map(W, v) ==
    desktop_move_to_front(desktop_focus_and_activate_view(W, v), v)

\* Unlink the view from the view set and free it.
view_destroy(W, v) ==
    [W EXCEPT !.views[v].alloc = "freed",
              !.server.order = Without(@, v),
              !.server.focused = IF @ = v THEN 0 ELSE @]

\* view_set_fullscreen / view_toggle_maximize: the per-view display-mode
\* flags.
view_set_fullscreen(W, v, fullscreen) ==
    [W EXCEPT !.views[v].fullscreen = fullscreen]

view_toggle_maximize(W, v) ==
    [W EXCEPT !.views[v].maximized = ~@]

\* Centre of the usable area for a view of extent (w, h): the usable area
\* is the box at the origin of twice the largest extent.
view_center(W, v) ==
    [W EXCEPT !.views[v].x = (2 * MaxSize - W.views[v].w) \div 2,
              !.views[v].y = (2 * MaxSize - W.views[v].h) \div 2]

\* The decoration overhangs the view by one unit at the top and the left.
ssd_max_extents(view) == [x |-> view.x - 1, y |-> view.y - 1]

\* --------------------------------------------------------- xwayland.c

\* Mutant: the position is adjusted only by the commit that reaches the
\* requested extent.
handle_commit_anchor_at_end(W, v, width, height) ==
    LET view == W.views[v]
        pending == view.pending
        move_pending == pending.update_x \/ pending.update_y
        size_changed == view.w # width \/ view.h # height
        done == pending.width = width /\ pending.height = height
        x1 == IF pending.update_x /\ done
              THEN pending.x + pending.width - width ELSE view.x
        y1 == IF pending.update_y /\ done
              THEN pending.y + pending.height - height ELSE view.y
    IN IF ~move_pending /\ ~size_changed THEN W
       ELSE [W EXCEPT
               !.views[v].w = width,
               !.views[v].h = height,
               !.views[v].x = x1,
               !.views[v].y = y1,
               !.views[v].pending.update_x = IF done THEN FALSE ELSE @,
               !.views[v].pending.update_y = IF done THEN FALSE ELSE @]

\* Mutant: the position is worked out from the extent the view had before
\* this commit instead of the committed one.
handle_commit_stale_width(W, v, width, height) ==
    LET view == W.views[v]
        pending == view.pending
        move_pending == pending.update_x \/ pending.update_y
        size_changed == view.w # width \/ view.h # height
        x1 == IF pending.update_x THEN pending.x + pending.width - view.w
              ELSE view.x
        y1 == IF pending.update_y THEN pending.y + pending.height - view.h
              ELSE view.y
        done == pending.width = width /\ pending.height = height
    IN IF ~move_pending /\ ~size_changed THEN W
       ELSE [W EXCEPT
               !.views[v].w = width,
               !.views[v].h = height,
               !.views[v].x = x1,
               !.views[v].y = y1,
               !.views[v].pending.update_x = IF done THEN FALSE ELSE @,
               !.views[v].pending.update_y = IF done THEN FALSE ELSE @]

handle_commit(W, v, width, height) ==
    LET view == W.views[v]
        pending == view.pending
        move_pending == pending.update_x \/ pending.update_y
        size_changed == view.w # width \/ view.h # height
        x1 == IF pending.update_x THEN pending.x + pending.width - width
              ELSE view.x
        y1 == IF pending.update_y THEN pending.y + pending.height - height
              ELSE view.y
        done == pending.width = width /\ pending.height = height
    IN IF ~move_pending /\ ~size_changed THEN W
       ELSE [W EXCEPT
               !.views[v].w = width,
               !.views[v].h = height,
               !.views[v].x = x1,
               !.views[v].y = y1,
               !.views[v].pending.update_x = IF done THEN FALSE ELSE @,
               !.views[v].pending.update_y = IF done THEN FALSE ELSE @]

\* Mutant: a flag the previous request set stays set.
configure_keep_flags(W, v, geo) ==
    LET view == W.views[v]
        W1 == [W EXCEPT !.views[v].pending =
                 [update_x |-> geo.x # view.x \/ view.pending.update_x,
                  update_y |-> geo.y # view.y \/ view.pending.update_y,
                  x |-> geo.x, y |-> geo.y,
                  width |-> geo.width, height |-> geo.height]]
    IN Call(W1, <<"configure", v, Int16(geo.x), Int16(geo.y),
                  UInt16(geo.width), UInt16(geo.height)>>)

configure(W, v, geo) ==
    LET view == W.views[v]
        W1 == [W EXCEPT !.views[v].pending =
                 [update_x |-> geo.x # view.x,
                  update_y |-> geo.y # view.y,
                  x |-> geo.x, y |-> geo.y,
                  width |-> geo.width, height |-> geo.height]]
    IN Call(W1, <<"configure", v, Int16(geo.x), Int16(geo.y),
                  UInt16(geo.width), UInt16(geo.height)>>)

\* s->width and s->height are the client's own extent, an input here.
move(W, v, x, y, swidth, sheight) ==
    LET W1 == [W EXCEPT !.views[v].x = x, !.views[v].y = y]
    IN Call(W1, <<"configure", v, Int16(x), Int16(y),
                  UInt16(swidth), UInt16(sheight)>>)

\* wlr_xwayland_surface_close: the client is asked to close the window.
_close(W, v) == Call(W, <<"close", v>>)

top_left_edge_boundary_check(W, v) ==
    LET deco == ssd_max_extents(W.views[v])
        W1 == [W EXCEPT
                 !.views[v].x = IF deco.x < 0 THEN @ - deco.x ELSE @,
                 !.views[v].y = IF deco.y < 0 THEN @ - deco.y ELSE @]
        box == [x |-> W1.views[v].x, y |-> W1.views[v].y,
                width |-> W1.views[v].w, height |-> W1.views[v].h]
    IN configure(W1, v, box)

\* view_discover_output and ssd_create, as map's one-time setup calls
\* them: the decoration is created when it is enabled.
view_discover_output(W, v) == Call(W, <<"view_discover_output", v>>)

ssd_create(W, v) ==
    IF W.views[v].ssd_enabled THEN Call(W, <<"ssd_create", v>>) ELSE W

\* Mutant: the setup is done and not recorded in been_mapped.
map_setup_not_recorded(W, v, in) ==
    LET W1 == [W EXCEPT !.views[v].ssd_enabled = in.decorations]
        W2 == IF ~W1.views[v].maximized /\ ~W1.views[v].fullscreen
              THEN view_center([W1 EXCEPT !.views[v].x = 0,
                                          !.views[v].y = 0], v)
              ELSE W1
    IN ssd_create(view_discover_output(W2, v), v)

\* The one-time setup of map: the decision on decorations, the placement
\* at the centre of the usable area (whose corner is the origin), the
\* output, the decoration, and been_mapped.
map_setup(W, v, in) ==
    LET W1 == [W EXCEPT !.views[v].ssd_enabled = in.decorations]
        W2 == IF ~W1.views[v].maximized /\ ~W1.views[v].fullscreen
              THEN view_center([W1 EXCEPT !.views[v].x = 0,
                                          !.views[v].y = 0], v)
              ELSE W1
        W3 == ssd_create(view_discover_output(W2, v), v)
    IN [W3 EXCEPT !.views[v].been_mapped = TRUE]

\* in: what map reads from the X window and the library:
\*   x, y, width, height  xwayland_surface->x, ->y, ->width, ->height
\*   fullscreen           xwayland_surface->fullscreen
\*   decorations          want_deco(view)
\*   tree_ok              wlr_scene_subsurface_tree_create returned a tree
map(W, v, in) ==
    LET view == W.views[v]
        \* view->mapped = true; fullscreen taken over from the X window
        W1 == [W EXCEPT !.views[v].mapped = TRUE]
        W2 == IF ~view.fullscreen /\ in.fullscreen
              THEN view_set_fullscreen(W1, v, TRUE) ELSE W1
        W3 == IF ~W2.views[v].maximized /\ ~W2.views[v].fullscreen
              THEN [W2 EXCEPT !.views[v].x = in.x, !.views[v].y = in.y,
                              !.views[v].w = in.width,
                              !.views[v].h = in.height]
              ELSE W2
        changed == W3.views[v].surface # W3.xsurf[v].surface
        W4 == IF changed
              THEN [W3 EXCEPT !.views[v].surface = W3.xsurf[v].surface]
              ELSE W3
        W5 == IF changed
              THEN [W4 EXCEPT !.views[v].scene_node = W4.views[v].surface]
              ELSE W4
        W6 == [W5 EXCEPT !.views[v].toplevel_handle = TRUE]
        \* the one-time setup, gated by been_mapped
        W7 == IF ~W6.views[v].been_mapped THEN map_setup(W6, v, in)
              ELSE W6
        W8 == IF W7.views[v].ssd_enabled /\ ~W7.views[v].fullscreen
                 /\ ~W7.views[v].maximized
              THEN top_left_edge_boundary_check(W7, v) ELSE W7
        \* wl_signal_add of a listener that is already linked corrupts
        \* the signal's list
        W9 == IF W8.views[v].commit > 0 THEN Fault(W8, "add_linked")
              ELSE [W8 EXCEPT !.views[v].commit = 1]
    IN IF view.mapped THEN W
       ELSE IF changed /\ ~in.tree_ok
            THEN Call(W4, <<"post_no_memory", v>>)
       ELSE IF Faulted(W9) THEN W9
       ELSE view_impl_map(W9, v)

\* Mutant: unmap without its early return for an unmapped view.
unmap_unguarded(W, v) ==
    LET view == W.views[v]
        W1 == [W EXCEPT !.views[v].mapped = FALSE]
        W2 == IF view.commit = 0 THEN Fault(W1, "remove_unlinked")
              ELSE [W1 EXCEPT !.views[v].commit = @ - 1]
    IN IF Faulted(W2) THEN W2
       ELSE desktop_focus_topmost_mapped_view(W2)

unmap(W, v) ==
    LET view == W.views[v]
        W1 == [W EXCEPT !.views[v].mapped = FALSE]
        \* wl_list_remove(&view->commit.link)
        W2 == IF view.commit = 0 THEN Fault(W1, "remove_unlinked")
              ELSE [W1 EXCEPT !.views[v].commit = @ - 1]
    IN IF ~view.mapped THEN W
       ELSE IF Faulted(W2) THEN W2
       ELSE desktop_focus_topmost_mapped_view(W2)

handle_map(W, v, in) == map(W, v, in)

handle_unmap(W, v) ==
    LET W1 == unmap(W, v)
    IN IF Faulted(W1) THEN W1
       ELSE [W1 EXCEPT !.views[v].toplevel_handle = FALSE]

handle_destroy(W, v) ==
    LET W1 == [W EXCEPT !.views[v].listeners = @ \ DestroyRemoves]
    IN IF ~(DestroyRemoves \subseteq W.views[v].listeners)
       THEN Fault(W, "remove_unlinked")
       ELSE view_destroy(W1, v)

handle_request_activate(W, v) ==
    desktop_move_to_front(desktop_focus_and_activate_view(W, v), v)

handle_request_maximize(W, v) == view_toggle_maximize(W, v)

\* fullscreen: xwayland_surface->fullscreen
handle_request_fullscreen(W, v, fullscreen) ==
    view_set_fullscreen(W, v, fullscreen)

\* The passthrough object for an override-redirect window
\* (xwayland-unmanaged.c is not among the sources).
xwayland_unmanaged_create(W, v) ==
    [W EXCEPT !.xsurf[v].state = "unmanaged",
              !.xsurf[v].unmanaged_mapped = FALSE]

unmanaged_handle_map(W, v) ==
    [W EXCEPT !.xsurf[v].unmanaged_mapped = TRUE]

\* Mutant: the view of a mapped window is destroyed without the unmap.
handle_override_redirect_no_unmap(W, v) ==
    LET mapped == W.xsurf[v].mapped
        W2 == handle_destroy(W, v)
        W3 == [W2 EXCEPT !.xsurf[v].data = 0]
        W4 == xwayland_unmanaged_create(W3, v)
    IN IF Faulted(W2) THEN W2
       ELSE IF mapped THEN unmanaged_handle_map(W4, v) ELSE W4

handle_override_redirect(W, v) ==
    LET mapped == W.xsurf[v].mapped
        W1 == IF mapped THEN handle_unmap(W, v) ELSE W
        W2 == IF Faulted(W1) THEN W1 ELSE handle_destroy(W1, v)
        W3 == [W2 EXCEPT !.xsurf[v].data = 0]
        W4 == xwayland_unmanaged_create(W3, v)
    IN IF Faulted(W2) THEN W2
       ELSE IF mapped THEN unmanaged_handle_map(W4, v) ELSE W4

\* override_redirect: xsurface->override_redirect when it is announced
xwayland_surface_new(W, v, override_redirect) ==
    IF override_redirect THEN xwayland_unmanaged_create(W, v)
    ELSE [W EXCEPT
            !.views[v] = [ZeroView EXCEPT
                            !.alloc = "live",
                            !.workspace = W.server.workspace_current,
                            !.listeners = XwaylandListeners],
            !.xsurf[v].state = "managed",
            !.xsurf[v].data = v,
            !.server.order = <<v>> \o @]

\* ----------------------------------------------------------- action.c

\* enum action_type.
ACTION_TYPE_NONE == 0
ACTION_TYPE_CLOSE == 1
ACTION_TYPE_DEBUG == 2
ACTION_TYPE_EXECUTE == 3
ACTION_TYPE_EXIT == 4
ACTION_TYPE_MOVE_TO_EDGE == 5
ACTION_TYPE_SNAP_TO_EDGE == 6
ACTION_TYPE_NEXT_WINDOW == 7
ACTION_TYPE_PREVIOUS_WINDOW == 8
ACTION_TYPE_RECONFIGURE == 9
ACTION_TYPE_SHOW_MENU == 10
ACTION_TYPE_TOGGLE_MAXIMIZE == 11
ACTION_TYPE_TOGGLE_FULLSCREEN == 12
ACTION_TYPE_TOGGLE_DECORATIONS == 13
ACTION_TYPE_TOGGLE_ALWAYS_ON_TOP == 14
ACTION_TYPE_FOCUS == 15
ACTION_TYPE_ICONIFY == 16
ACTION_TYPE_MOVE == 17
ACTION_TYPE_RAISE == 18
ACTION_TYPE_RESIZE == 19
ACTION_TYPE_GO_TO_DESKTOP == 20
ACTION_TYPE_SEND_TO_DESKTOP == 21

\* A C string is the sequence of its characters' codes (without the NUL).
\* action_names[], NULL-terminated in the source; the index of a name is
\* its action type plus one (sequences start at 1).
action_names == <<
    <<78, 111, 79, 112>>,  \* "NoOp"
    <<67, 108, 111, 115, 101>>,  \* "Close"
    <<68, 101, 98, 117, 103>>,  \* "Debug"
    <<69, 120, 101, 99, 117, 116, 101>>,  \* "Execute"
    <<69, 120, 105, 116>>,  \* "Exit"
    <<77, 111, 118, 101, 84, 111, 69, 100, 103, 101>>,  \* "MoveToEdge"
    <<83, 110, 97, 112, 84, 111, 69, 100, 103, 101>>,  \* "SnapToEdge"
    <<78, 101, 120, 116, 87, 105, 110, 100, 111, 119>>,  \* "NextWindow"
    <<80, 114, 101, 118, 105, 111, 117, 115, 87, 105, 110, 100, 111, 119>>,  \* "PreviousWindow"
    <<82, 101, 99, 111, 110, 102, 105, 103, 117, 114, 101>>,  \* "Reconfigure"
    <<83, 104, 111, 119, 77, 101, 110, 117>>,  \* "ShowMenu"
    <<84, 111, 103, 103, 108, 101, 77, 97, 120, 105, 109, 105, 122, 101>>,  \* "ToggleMaximize"
    <<84, 111, 103, 103, 108, 101, 70, 117, 108, 108, 115, 99, 114, 101, 101, 110>>,  \* "ToggleFullscreen"
    <<84, 111, 103, 103, 108, 101, 68, 101, 99, 111, 114, 97, 116, 105, 111, 110, 115>>,  \* "ToggleDecorations"
    <<84, 111, 103, 103, 108, 101, 65, 108, 119, 97, 121, 115, 79, 110, 84, 111, 112>>,  \* "ToggleAlwaysOnTop"
    <<70, 111, 99, 117, 115>>,  \* "Focus"
    <<73, 99, 111, 110, 105, 102, 121>>,  \* "Iconify"
    <<77, 111, 118, 101>>,  \* "Move"
    <<82, 97, 105, 115, 101>>,  \* "Raise"
    <<82, 101, 115, 105, 122, 101>>,  \* "Resize"
    <<71, 111, 84, 111, 68, 101, 115, 107, 116, 111, 112>>,  \* "GoToDesktop"
    <<83, 101, 110, 100, 84, 111, 68, 101, 115, 107, 116, 111, 112>>  \* "SendToDesktop"
    >>

\* A pointer to a string or to a view argument is <<>> when it is NULL and
\* <<value>> otherwise.
tolower(c) == IF c \in 65..90 THEN c + 32 ELSE c

\* Mutant: the comparison of strcmp, which tells the cases apart.
strcmp(a, b) == IF a = b THEN 0 ELSE 1

\* 0 exactly when the strings are equal up to the case of their letters
\* (only whether the result is 0 is ever used).
strcasecmp(a, b) ==
    IF Len(a) = Len(b) /\ \A i \in 1..Len(a) : tolower(a[i]) = tolower(b[i])
    THEN 0 ELSE 1

\* The loop runs over action_names[1..] of the source: the first name
\* that compares equal gives the type, and "NoOp" itself is never compared.
action_type_from_str(action_name) ==
    LET hits == {i \in 1..(Len(action_names) - 1) :
                    strcasecmp(action_name, action_names[i + 1]) = 0}
    IN IF hits = {} THEN ACTION_TYPE_NONE
       ELSE CHOOSE i \in hits : \A j \in hits : i <= j

\* The NULL action pointer.
NoAction == [type |-> -1, arg |-> <<>>]

\* calloc leaves arg NULL; the caller fills it in.
action_create(action_name) ==
    IF action_name = <<>> THEN NoAction
    ELSE [type |-> action_type_from_str(action_name[1]), arg |-> <<>>]

\* Mutant: the target is resolved for the first action and reused.
activator_or_first_view(activator, W) ==
    IF activator # 0 THEN activator
    ELSE IF trace # <<>> THEN trace[1].view ELSE desktop_focused_view(W)

\* Mutant: the focused view is the target even when there is an activator.
focused_view_only(activator, W) == desktop_focused_view(W)

activator_or_focused_view(activator, W) ==
    IF activator # 0 THEN activator ELSE desktop_focused_view(W)

\* The view layer and the workspace registry, as action.c uses them
\* (view.c and workspaces.c are not among the sources).
view_close(W, v) == _close(W, v)

view_toggle_fullscreen(W, v) ==
    view_set_fullscreen(W, v, ~W.views[v].fullscreen)

view_toggle_decorations(W, v) == [W EXCEPT !.views[v].ssd_enabled = ~@]

view_toggle_always_on_top(W, v) == [W EXCEPT !.views[v].always_on_top = ~@]

\* Minimizing a view unmaps it through its backend.
view_minimize(W, v, minimized) ==
    IF W.views[v].minimized = minimized THEN W
    ELSE IF minimized
         THEN unmap([W EXCEPT !.views[v].minimized = TRUE], v)
         ELSE [W EXCEPT !.views[v].minimized = FALSE]

\* The strings the actions' arguments are compared with.
str_left == <<108, 101, 102, 116>>  \* "left"
str_right == <<114, 105, 103, 104, 116>>  \* "right"
str_root_menu == <<114, 111, 111, 116, 45, 109, 101, 110, 117>>  \* "root-menu"
str_client_menu == <<99, 108, 105, 101, 110, 116, 45, 109, 101, 110, 117>>  \* "client-menu"

\* The workspace named by name relative to anchor, 0 (NULL) when there is
\* none: "left" and "right" are the neighbours in the workspace order.
workspaces_find(anchor, name) ==
    IF name = <<str_left>> /\ anchor > 1 THEN anchor - 1
    ELSE IF name = <<str_right>> /\ anchor >= 1 /\ anchor < NumWorkspaces
         THEN anchor + 1
         ELSE 0

workspaces_switch_to(W, target) ==
    desktop_focus_topmost_mapped_view(
        [W EXCEPT !.server.workspace_current = target])

workspaces_send_to(W, v, target) == [W EXCEPT !.views[v].workspace = target]

\* menu_get_by_id: the menus that exist.
KnownMenus == {<<str_root_menu>>, <<str_client_menu>>}

\* ssd_part: what ssd_at finds under the cursor ("button_window_menu",
\* "titlebar" for any other part of the title bar, "none" otherwise).
\* Mutant: the context menu is put at the view's corner on the title bar
\* too.
show_menu_always_top_left(W, view, menu_name, ssd_part) ==
    LET client == /\ menu_name # <<>>
                  /\ strcasecmp(menu_name[1], str_client_menu) = 0
        force_menu_top_left == client
        at == IF force_menu_top_left
              THEN <<"view", W.views[view].x, W.views[view].y>>
              ELSE <<"cursor">>
    IN IF menu_name \notin KnownMenus THEN W
       ELSE IF client /\ view = 0 THEN W
       ELSE Call([W EXCEPT !.server.menu =
                     [id |-> menu_name, at |-> at,
                      triggered_by_view |-> view]],
                 <<"menu_open", menu_name>>)

show_menu(W, view, menu_name, ssd_part) ==
    LET client == /\ menu_name # <<>>
                  /\ strcasecmp(menu_name[1], str_client_menu) = 0
        force_menu_top_left ==
            /\ client
            /\ \/ ssd_part = "button_window_menu"
               \/ ssd_part # "titlebar"
        at == IF force_menu_top_left
              THEN <<"view", W.views[view].x, W.views[view].y>>
              ELSE <<"cursor">>
    IN IF menu_name \notin KnownMenus THEN W
       ELSE IF client /\ view = 0 THEN W
       ELSE Call([W EXCEPT !.server.menu =
                     [id |-> menu_name, at |-> at,
                      triggered_by_view |-> view]],
                 <<"menu_open", menu_name>>)

\* The branch of ACTION_TYPE_GO_TO_DESKTOP (view is in scope, not used).
\* buf_add: appends the text to the buffer, or nothing for a NULL pointer.
buf_add(buf, data) == IF data = <<>> THEN buf ELSE buf \o data[1]

\* A character of a variable's name: a digit, a letter or '_'.
IsNameChar(c) ==
    \/ c \in 48..57
    \/ c \in 65..90
    \/ c \in 97..122
    \/ c = 95

\* buf_expand_shell_variables: "$name" is replaced by the variable's
\* value.  The environment of the model defines no variable, so that the
\* reference expands to nothing.
RECURSIVE expand_from(_, _)
expand_from(s, in_name) ==
    IF s = <<>> THEN <<>>
    ELSE IF Head(s) = 36 THEN expand_from(Tail(s), TRUE)
    ELSE IF in_name /\ IsNameChar(Head(s)) THEN expand_from(Tail(s), TRUE)
    ELSE <<Head(s)>> \o expand_from(Tail(s), FALSE)

buf_expand_shell_variables(buf) == expand_from(buf, FALSE)

\* Mutant: a process is recorded for the empty command too.
spawn_async_empty_too(W, command) ==
    Call(W, <<"spawn_async_no_shell", command>>)

\* spawn_async_no_shell: starts a detached process for the command; an
\* empty command is reported and starts nothing.
spawn_async_no_shell(W, command) ==
    IF command = <<>> THEN W
    ELSE Call(W, <<"spawn_async_no_shell", command>>)

\* ACTION_TYPE_EXECUTE
execute(W, arg) ==
    LET cmd == buf_expand_shell_variables(buf_add(<<>>, arg))
    IN spawn_async_no_shell(W, cmd)

\* Mutant: the workspace is looked for from the target view's workspace.
go_to_desktop_from_view(W, view, arg) ==
    LET anchor == IF view # 0 THEN W.views[view].workspace
                  ELSE W.server.workspace_current
        target == workspaces_find(anchor, arg)
    IN IF target # 0 THEN workspaces_switch_to(W, target) ELSE W

go_to_desktop(W, view, arg) ==
    LET target == workspaces_find(W.server.workspace_current, arg)
    IN IF target # 0 THEN workspaces_switch_to(W, target) ELSE W

\* The branch of ACTION_TYPE_SEND_TO_DESKTOP.
\* Mutant: the workspace is looked for from the current workspace.
send_to_desktop_from_current(W, view, arg) ==
    IF view # 0
    THEN LET target == workspaces_find(W.server.workspace_current, arg)
         IN IF target # 0 THEN workspaces_send_to(W, view, target) ELSE W
    ELSE W

send_to_desktop(W, view, arg) ==
    IF view # 0
    THEN LET target == workspaces_find(W.views[view].workspace, arg)
         IN IF target # 0 THEN workspaces_send_to(W, view, target) ELSE W
    ELSE W

\* The body of the loop of actions_run for one action: view is the target
\* resolved for it, cursor the view desktop_view_at_cursor finds (0: none),
\* ssd_part what ssd_at finds under the cursor.
run_action(W, action, view, cursor, ssd_part) ==
    LET type == action.type
        arg == action.arg
    IN CASE type = ACTION_TYPE_CLOSE ->
              IF view # 0 THEN view_close(W, view) ELSE W
         [] type = ACTION_TYPE_DEBUG -> Call(W, <<"debug_dump_scene">>)
         [] type = ACTION_TYPE_EXECUTE ->
              execute(W, arg)
         [] type = ACTION_TYPE_EXIT -> Call(W, <<"wl_display_terminate">>)
         [] type = ACTION_TYPE_MOVE_TO_EDGE ->
              IF arg # <<>> THEN Call(W, <<"view_move_to_edge", view, arg>>)
              ELSE W
         [] type = ACTION_TYPE_SNAP_TO_EDGE ->
              IF arg # <<>> THEN Call(W, <<"view_snap_to_edge", view, arg>>)
              ELSE W
         [] type = ACTION_TYPE_NEXT_WINDOW ->
              Call(W, <<"desktop_cycle_view", "forward">>)
         [] type = ACTION_TYPE_PREVIOUS_WINDOW ->
              Call(W, <<"desktop_cycle_view", "backward">>)
         [] type = ACTION_TYPE_RECONFIGURE -> Call(W, <<"kill", "SIGHUP">>)
         [] type = ACTION_TYPE_SHOW_MENU -> show_menu(W, view, arg, ssd_part)
         [] type = ACTION_TYPE_TOGGLE_MAXIMIZE ->
              IF view # 0 THEN view_toggle_maximize(W, view) ELSE W
         [] type = ACTION_TYPE_TOGGLE_FULLSCREEN ->
              IF view # 0 THEN view_toggle_fullscreen(W, view) ELSE W
         [] type = ACTION_TYPE_TOGGLE_DECORATIONS ->
              IF view # 0 THEN view_toggle_decorations(W, view) ELSE W
         [] type = ACTION_TYPE_TOGGLE_ALWAYS_ON_TOP ->
              IF view # 0 THEN view_toggle_always_on_top(W, view) ELSE W
         [] type = ACTION_TYPE_FOCUS ->
              IF cursor # 0 THEN desktop_focus_and_activate_view(W, cursor)
              ELSE W
         [] type = ACTION_TYPE_ICONIFY ->
              IF view # 0 THEN view_minimize(W, view, TRUE) ELSE W
         [] type = ACTION_TYPE_MOVE ->
              IF cursor # 0
              THEN Call(W, <<"interactive_begin", cursor, "move">>) ELSE W
         [] type = ACTION_TYPE_RAISE ->
              IF view # 0 THEN desktop_move_to_front(W, view) ELSE W
         [] type = ACTION_TYPE_RESIZE ->
              IF cursor # 0
              THEN Call(W, <<"interactive_begin", cursor, "resize">>) ELSE W
         [] type = ACTION_TYPE_GO_TO_DESKTOP -> go_to_desktop(W, view, arg)
         [] type = ACTION_TYPE_SEND_TO_DESKTOP -> send_to_desktop(W, view, arg)
         [] OTHER -> W   \* ACTION_TYPE_NONE and the default branch: log only

\* The action types whose branch looks under the cursor.
CursorTypes == {ACTION_TYPE_FOCUS, ACTION_TYPE_MOVE, ACTION_TYPE_RESIZE}

\* The view the branch of action hands to a view operation, 0 when it
\* hands none: the resolved target, or the view under the cursor.
Operand(action, view, cursor) ==
    CASE action.type \in {ACTION_TYPE_CLOSE, ACTION_TYPE_TOGGLE_MAXIMIZE,
                          ACTION_TYPE_TOGGLE_FULLSCREEN,
                          ACTION_TYPE_TOGGLE_DECORATIONS,
                          ACTION_TYPE_TOGGLE_ALWAYS_ON_TOP,
                          ACTION_TYPE_ICONIFY, ACTION_TYPE_RAISE,
                          ACTION_TYPE_SEND_TO_DESKTOP,
                          ACTION_TYPE_SHOW_MENU} -> view
      [] action.type \in {ACTION_TYPE_MOVE_TO_EDGE,
                          ACTION_TYPE_SNAP_TO_EDGE} ->
           IF action.arg # <<>> THEN view ELSE 0
      [] action.type \in CursorTypes -> cursor
      [] OTHER -> 0

\* ------------------------------------------------------ the event loop

\* No menu is open.
NoMenu == [id |-> <<>>, at |-> <<>>, triggered_by_view |-> 0]

\* No invocation of actions_run is in progress.
Idle == [active |-> FALSE, activator |-> 0, names |-> <<>>, list |-> <<>>,
         pc |-> 0]

\* What last keeps of the view as it was before the event.
Before(view) ==
    [mapped |-> view.mapped, update_x |-> view.pending.update_x,
     update_y |-> view.pending.update_y]

Init ==
    /\ views = [v \in Views |-> ZeroView]
    /\ xsurf = [v \in Views |-> NoXSurface]
    /\ server = [focused |-> 0, order |-> <<>>, workspace_current |-> 1,
                 menu |-> NoMenu, fault |-> "none"]
    /\ calls = <<>>
    /\ last = [op |-> "init", v |-> 0, pre |-> Before(ZeroView)]
    /\ run = Idle
    /\ trace = <<>>

\* The world a handler starts from: no request made to the library yet.
Start == [World EXCEPT !.calls = <<>>]

\* The handler of an event left the world W.
Handled(W) ==
    /\ views' = W.views
    /\ xsurf' = W.xsurf
    /\ server' = W.server
    /\ calls' = W.calls
    /\ UNCHANGED <<run, trace>>

\* The event A, with last keeping its name and its view v as it was, or
\* with last left alone.
Noted(op, v, A) ==
    A /\ last' = [op |-> op, v |-> v, pre |-> Before(views[v])]

Quiet(A) == A /\ UNCHANGED last

\* Events are handled one at a time, none while actions_run is running.
Running == ~Faulted(World) /\ ~run.active
Managed(v) == xsurf[v].state = "managed"

\* What map reads from the X window: positions P, extents S, and the sets
\* F, D and T of values of fullscreen, decorations and tree_ok.
MapInputs(P, S, F, D, T) ==
    [x : P, y : P, width : S, height : S, fullscreen : F,
     decorations : D, tree_ok : T]

Boxes(P, S) == [x : P, y : P, width : S, height : S]

\* A new X window is announced.
EvNewSurface(v, override_redirect) ==
    /\ Running
    /\ xsurf[v].state = "none"
    /\ Handled(xwayland_surface_new(
                 [Start EXCEPT !.xsurf[v].override_redirect = override_redirect],
                 v, override_redirect))

\* The X window is mapped: the library gives it the surface s, marks it
\* mapped and emits map.
EvMap(v, s, in) ==
    /\ Running
    /\ xsurf[v].state \in {"managed", "unmanaged"}
    /\ ~xsurf[v].mapped
    /\ LET W0 == [Start EXCEPT !.xsurf[v].mapped = TRUE,
                               !.xsurf[v].surface = s]
       IN IF Managed(v)
          THEN Handled(handle_map(W0, v, in))
          ELSE Handled(unmanaged_handle_map(W0, v))

\* The X window is unmapped: the library clears mapped and emits unmap.
EvUnmap(v) ==
    /\ Running
    /\ xsurf[v].state \in {"managed", "unmanaged"}
    /\ xsurf[v].mapped
    /\ LET W0 == [Start EXCEPT !.xsurf[v].mapped = FALSE]
       IN IF Managed(v)
          THEN Handled(handle_unmap(W0, v))
          ELSE Handled([W0 EXCEPT !.xsurf[v].unmanaged_mapped = FALSE])

\* The X window is destroyed: the library unmaps a mapped window (emitting
\* unmap) before it emits destroy.
XDestroy(W, v) ==
    LET managed == W.xsurf[v].state = "managed"
        W0 == [W EXCEPT !.xsurf[v].mapped = FALSE]
        W1 == IF W.xsurf[v].mapped /\ managed THEN handle_unmap(W0, v)
              ELSE W0
        W2 == IF Faulted(W1) \/ ~managed THEN W1 ELSE handle_destroy(W1, v)
    IN IF Faulted(W2) THEN W2
       ELSE [W2 EXCEPT !.xsurf[v].state = "gone",
                       !.xsurf[v].unmanaged_mapped = FALSE]

EvDestroy(v) ==
    /\ Running
    /\ xsurf[v].state \in {"managed", "unmanaged"}
    /\ Handled(XDestroy(Start, v))

\* The client commits a buffer of extent (width, height) on the surface
\* the commit listener is linked to.
EvCommit(v, width, height) ==
    /\ Running
    /\ Managed(v)
    /\ views[v].commit > 0
    /\ Handled(handle_commit(Start, v, width, height))

\* The X window becomes override-redirect.
EvOverrideRedirect(v) ==
    /\ Running
    /\ Managed(v)
    /\ Handled(handle_override_redirect(
                 [Start EXCEPT !.xsurf[v].override_redirect = TRUE], v))

EvRequestActivate(v) ==
    /\ Running
    /\ Managed(v)
    /\ Handled(handle_request_activate(Start, v))

EvRequestMaximize(v) ==
    /\ Running
    /\ Managed(v)
    /\ Handled(handle_request_maximize(Start, v))

EvRequestFullscreen(v, fullscreen) ==
    /\ Running
    /\ Managed(v)
    /\ Handled(handle_request_fullscreen(Start, v, fullscreen))

\* The view layer calls through the view's xwl_view_impl table.  It calls
\* map only while the X window is mapped (while it has a surface).
ImplConfigure(v, geo) ==
    /\ Running
    /\ Managed(v)
    /\ Handled(configure(Start, v, geo))

ImplMove(v, x, y, swidth, sheight) ==
    /\ Running
    /\ Managed(v)
    /\ Handled(move(Start, v, x, y, swidth, sheight))

ImplMap(v, in) ==
    /\ Running
    /\ Managed(v)
    /\ xsurf[v].mapped
    /\ Handled(map(Start, v, in))

ImplUnmap(v) ==
    /\ Running
    /\ Managed(v)
    /\ Handled(unmap(Start, v))

\* Geometry negotiation of one view over all positions and extents:
\* configure, move and commit between map and unmap.  The window is mapped
\* with the smallest extent; commits give it every other.
NextGeo ==
    \E v \in {1} :
        \/ Noted("EvNewSurface", v, EvNewSurface(v, FALSE))
        \/ \E in \in MapInputs(Pos, {1}, {FALSE}, BOOLEAN, {TRUE}) :
               Noted("EvMap", v, EvMap(v, 1, in))
        \/ Noted("EvUnmap", v, EvUnmap(v))
        \/ \E w \in Size, h \in Size : Noted("EvCommit", v, EvCommit(v, w, h))
        \/ \E geo \in Boxes(Pos, Size) :
               Noted("ImplConfigure", v, ImplConfigure(v, geo))
        \/ \E x \in Pos, y \in Pos : Noted("ImplMove", v, ImplMove(v, x, y, 1, 1))

SpecGeo == Init /\ [][NextGeo]_vars

\* The lifecycle of a view at one position and extent: every surface,
\* display mode and outcome of the drawable subtree's creation.
NextView ==
    \E v \in {1} :
        \/ \E o \in BOOLEAN : Noted("EvNewSurface", v, EvNewSurface(v, o))
        \/ \E s \in Surfs,
              in \in MapInputs({0}, {1}, BOOLEAN, BOOLEAN, BOOLEAN) :
               Noted("EvMap", v, EvMap(v, s, in))
        \/ Noted("EvUnmap", v, EvUnmap(v))
        \/ Noted("EvDestroy", v, EvDestroy(v))
        \/ Noted("EvCommit", v, EvCommit(v, 1, 1))
        \/ Noted("EvOverrideRedirect", v, EvOverrideRedirect(v))
        \/ Noted("EvRequestActivate", v, EvRequestActivate(v))
        \/ Noted("EvRequestMaximize", v, EvRequestMaximize(v))
        \/ \E f \in BOOLEAN :
               Noted("EvRequestFullscreen", v, EvRequestFullscreen(v, f))
        \/ \E in \in MapInputs({0}, {1}, BOOLEAN, BOOLEAN, BOOLEAN) :
               Noted("ImplMap", v, ImplMap(v, in))
        \/ Noted("ImplUnmap", v, ImplUnmap(v))

SpecView == Init /\ [][NextView]_vars

\* ---------------------------------------------------------- actions_run

\* The sequences over S of length 1..n.
SeqsUpTo(S, n) == UNION {[1..k -> S] : k \in 1..n}

\* The views desktop_view_at_cursor can find: a mapped view of the current
\* workspace, or none.
ViewsAtCursor ==
    {0} \cup {v \in Views : /\ views[v].alloc = "live"
                            /\ views[v].mapped
                            /\ views[v].workspace = server.workspace_current}

SsdParts == {"button_window_menu", "titlebar", "none"}

\* The list the caller makes of the named actions and their arguments with
\* action_create, and the names it was made of: a NULL name is not a name,
\* and an action is appended when action_create returns one.
RECURSIVE MakeList(_)
MakeList(items) ==
    IF items = <<>> THEN [names |-> <<>>, list |-> <<>>]
    ELSE LET name == Head(items).name
             action == action_create(name)
             rest == MakeList(Tail(items))
         IN [names |-> IF name = <<>> THEN rest.names
                       ELSE <<name[1]>> \o rest.names,
             list |-> IF action = NoAction THEN rest.list
                      ELSE <<[action EXCEPT !.arg = Head(items).arg]>>
                               \o rest.list]

\* A trigger fires: actions_run is called with the activator (0: none) and
\* the list made of items.
RunStart(activator, made) ==
    /\ Running
    /\ activator # 0 => views[activator].alloc = "live"
    /\ run' = [active |-> TRUE, activator |-> activator,
               names |-> made.names, list |-> made.list, pc |-> 1]
    /\ trace' = <<>>
    /\ calls' = <<>>
    /\ UNCHANGED <<views, xsurf, server, last>>

\* One iteration of the loop: the target is resolved, then the action's
\* branch runs.  A branch that hands a freed view to a view operation reads
\* freed memory: the process faults (crash) or goes on with nothing done.
\* Mutant: the loop ends after an Exit action.
RunStepExitEnds(cursor, ssd_part, crash) ==
    /\ run.active
    /\ ~Faulted(World)
    /\ run.pc <= Len(run.list)
    /\ LET action == run.list[run.pc]
           view == activator_or_focused_view(run.activator, World)
           operand == Operand(action, view, cursor)
           stale == operand # 0 /\ views[operand].alloc = "freed"
           W == IF stale
                THEN IF crash THEN Fault(World, "use_after_free") ELSE World
                ELSE run_action(World, action, view, cursor, ssd_part)
       IN /\ action.type \notin CursorTypes => cursor = 0
          /\ action.type # ACTION_TYPE_SHOW_MENU => ssd_part = "none"
          /\ ~stale => ~crash
          /\ views' = W.views
          /\ xsurf' = W.xsurf
          /\ server' = W.server
          /\ calls' = W.calls
          /\ trace' = Append(trace,
                 [type |-> action.type, view |-> view,
                  focus |-> server.focused, cursor |-> cursor,
                  ssd_part |-> ssd_part,
                  workspace |-> server.workspace_current,
                  operand |-> operand, stale |-> stale,
                  live |-> {v \in Views : views[v].alloc = "live"},
                  changed |-> W # World])
          /\ run' = [run EXCEPT !.pc = IF action.type = ACTION_TYPE_EXIT
                                       THEN Len(run.list) + 1 ELSE @ + 1]
    /\ UNCHANGED last

RunStep(cursor, ssd_part, crash) ==
    /\ run.active
    /\ ~Faulted(World)
    /\ run.pc <= Len(run.list)
    /\ LET action == run.list[run.pc]
           view == activator_or_focused_view(run.activator, World)
           operand == Operand(action, view, cursor)
           stale == operand # 0 /\ views[operand].alloc = "freed"
           W == IF stale
                THEN IF crash THEN Fault(World, "use_after_free") ELSE World
                ELSE run_action(World, action, view, cursor, ssd_part)
       IN /\ action.type \notin CursorTypes => cursor = 0
          /\ action.type # ACTION_TYPE_SHOW_MENU => ssd_part = "none"
          /\ ~stale => ~crash
          /\ views' = W.views
          /\ xsurf' = W.xsurf
          /\ server' = W.server
          /\ calls' = W.calls
          /\ trace' = Append(trace,
                 [type |-> action.type, view |-> view,
                  focus |-> server.focused, cursor |-> cursor,
                  ssd_part |-> ssd_part,
                  workspace |-> server.workspace_current,
                  operand |-> operand, stale |-> stale,
                  live |-> {v \in Views : views[v].alloc = "live"},
                  changed |-> W # World])
    /\ run' = [run EXCEPT !.pc = @ + 1]
    /\ UNCHANGED last

\* A client that one of the actions run so far asked to close goes away
\* while the list is still running: its window is destroyed before the
\* next action.
ClosedMidRun(v) ==
    /\ run.active
    /\ ~Faulted(World)
    /\ run.pc <= Len(run.list)
    /\ Managed(v)
    /\ \E i \in DOMAIN trace : /\ trace[i].type = ACTION_TYPE_CLOSE
                               /\ trace[i].operand = v
                               /\ ~trace[i].stale
    /\ LET W == XDestroy(World, v)
       IN /\ views' = W.views
          /\ xsurf' = W.xsurf
          /\ server' = W.server
          /\ calls' = W.calls
    /\ UNCHANGED <<last, run, trace>>

\* actions_run returns.
RunReturn ==
    /\ run.active
    /\ ~Faulted(World)
    /\ run.pc > Len(run.list)
    /\ run' = Idle
    /\ trace' = <<>>
    /\ calls' = <<>>
    /\ UNCHANGED <<views, xsurf, server, last>>

\* The name of action type t as action_names spells it.
NameOf(t) == <<action_names[t + 1]>>

\* The action lists of the engine's specification: Close, which acts on
\* the resolved target, and Focus, which changes what the target resolves
\* to; without arguments.
RunItems ==
    {[name |-> NameOf(t), arg |-> <<>>] :
        t \in {ACTION_TYPE_CLOSE, ACTION_TYPE_FOCUS}}

\* The lists made of up to MaxActions of them.
RunLists == {MakeList(items) : items \in SeqsUpTo(RunItems, MaxActions)}

\* What map reads of a plain window.
PlainMap ==
    [x |-> 0, y |-> 0, width |-> 1, height |-> 1, fullscreen |-> FALSE,
     decorations |-> FALSE, tree_ok |-> TRUE]

\* The action engine over all views: windows come, are mapped, unmapped
\* and go between the invocations of actions_run.
NextAct ==
    \/ \E v \in Views :
        \/ Quiet(EvNewSurface(v, FALSE))
        \/ Quiet(EvMap(v, 1, PlainMap))
        \/ Quiet(EvUnmap(v))
        \/ Quiet(EvDestroy(v))
        \/ ClosedMidRun(v)
    \/ \E a \in {0} \cup Views, made \in RunLists : RunStart(a, made)
    \/ \E c \in ViewsAtCursor, crash \in BOOLEAN : RunStep(c, "none", crash)
    \/ RunReturn

SpecAct == Init /\ [][NextAct]_vars

\* ------------------------------------------------------ action_create

Lower(str) == [i \in DOMAIN str |-> IF str[i] \in 65..90 THEN str[i] + 32
                                    ELSE str[i]]

\* The spellings of a name b that configuration files try: b itself, b in
\* lower case, and b cut short by a letter.
Spellings(b) == {b, Lower(b), SubSeq(b, 1, Len(b) - 1)}

\* The names given to action_create: the spellings of every action name,
\* the empty string and NULL.
CreateNames ==
    {<<n>> : n \in UNION {Spellings(action_names[k]) :
                             k \in DOMAIN action_names}}
        \cup {<< <<>> >>, <<>>}

\* The lists made of one of them.
CreateLists == {MakeList(<<[name |-> n, arg |-> <<>>]>>) : n \in CreateNames}

\* The action engine run on one action of any name, over one view.
NextCreate ==
    \/ \E v \in {1} :
        \/ Quiet(EvNewSurface(v, FALSE))
        \/ Quiet(EvMap(v, 1, PlainMap))
        \/ Quiet(EvUnmap(v))
        \/ Quiet(EvDestroy(v))
    \/ \E a \in {0, 1}, made \in CreateLists : RunStart(a, made)
    \/ \E c \in ViewsAtCursor, crash \in BOOLEAN : RunStep(c, "none", crash)
    \/ RunReturn

SpecCreate == Init /\ [][NextCreate]_vars

\* -------------------------------------------- lists with arguments

str_nope == <<110, 111, 112, 101>>  \* "nope": the name of no menu and no workspace

Item(t, arg) == [name |-> NameOf(t), arg |-> arg]

\* The sentinel, which does nothing, Exit, and the workspace actions with
\* "left" and "right", which do nothing when the workspace does not
\* resolve or when there is no view to send.
DeskItems ==
    {Item(ACTION_TYPE_NONE, <<>>), Item(ACTION_TYPE_EXIT, <<>>),
     Item(ACTION_TYPE_GO_TO_DESKTOP, <<str_left>>),
     Item(ACTION_TYPE_GO_TO_DESKTOP, <<str_right>>),
     Item(ACTION_TYPE_SEND_TO_DESKTOP, <<str_left>>),
     Item(ACTION_TYPE_SEND_TO_DESKTOP, <<str_right>>)}

DeskLists == {MakeList(items) : items \in SeqsUpTo(DeskItems, MaxActions)}

\* The action engine run on lists of these, over one view and the
\* workspaces.
NextDesk ==
    \/ \E v \in {1} :
        \/ Quiet(EvNewSurface(v, FALSE))
        \/ Quiet(EvMap(v, 1, PlainMap))
        \/ Quiet(EvUnmap(v))
        \/ Quiet(EvDestroy(v))
    \/ \E a \in {0, 1}, made \in DeskLists : RunStart(a, made)
    \/ \E c \in ViewsAtCursor, crash \in BOOLEAN : RunStep(c, "none", crash)
    \/ RunReturn

SpecDesk == Init /\ [][NextDesk]_vars

str_Client_Menu == <<67, 108, 105, 101, 110, 116, 45, 77, 101, 110, 117>>  \* "Client-Menu"
str_unset == <<36, 97>>  \* "$a": a variable that is not set
str_foot == <<102, 111, 111, 116>>  \* "foot": a command

\* The actions that read their argument, with and without it: an edge, a
\* command, and the names of the menus, of the context menu in another
\* case, and of no menu.
ArgItems ==
    {Item(t, arg) : t \in {ACTION_TYPE_MOVE_TO_EDGE, ACTION_TYPE_SNAP_TO_EDGE},
                    arg \in {<<>>, <<str_left>>}}
        \cup {Item(ACTION_TYPE_EXECUTE, arg) :
                 arg \in {<<>>, <<str_foot>>, <<str_unset>>}}
        \cup {Item(ACTION_TYPE_SHOW_MENU, arg) :
                 arg \in {<<>>, <<str_root_menu>>, <<str_client_menu>>,
                          <<str_Client_Menu>>, <<str_nope>>}}

ArgLists == {MakeList(<<item>>) : item \in ArgItems}

\* The action engine run on one of these actions, over one view, with the
\* cursor on any part of the decoration.
NextArg ==
    \/ \E v \in {1} :
        \/ Quiet(EvNewSurface(v, FALSE))
        \/ Quiet(EvMap(v, 1, PlainMap))
        \/ Quiet(EvUnmap(v))
        \/ Quiet(EvDestroy(v))
    \/ \E a \in {0, 1}, made \in ArgLists : RunStart(a, made)
    \/ \E c \in ViewsAtCursor, part \in SsdParts, crash \in BOOLEAN :
           RunStep(c, part, crash)
    \/ RunReturn

SpecArg == Init /\ [][NextArg]_vars

\* Focus among all views: windows come, are mapped (the subtree created or
\* not), ask for activation, are unmapped by the client or by the view
\* layer, and go.
NextFocus ==
    \E v \in Views :
        \/ Noted("EvNewSurface", v, EvNewSurface(v, FALSE))
        \/ \E in \in MapInputs({0}, {1}, {FALSE}, {FALSE}, BOOLEAN) :
               Noted("EvMap", v, EvMap(v, 1, in))
        \/ Noted("EvUnmap", v, EvUnmap(v))
        \/ Noted("EvDestroy", v, EvDestroy(v))
        \/ Noted("EvRequestActivate", v, EvRequestActivate(v))
        \/ Noted("ImplUnmap", v, ImplUnmap(v))

SpecFocus == Init /\ [][NextFocus]_vars

\* ------------------------------------------------------------- claims

\* The action type of the engine's specification that acts on the resolved
\* target.
TargetTypes == {ACTION_TYPE_CLOSE}

\* C1: before every action of the list the target is resolved anew as the
\* activator if one was supplied, otherwise the view focused at that
\* moment; so in a list run without an activator an action acts on the
\* view that is focused after the actions before it have taken effect.
C1_TargetResolvedAnew ==
    \A i \in DOMAIN trace :
        /\ trace[i].view = IF run.activator # 0 THEN run.activator
                           ELSE trace[i].focus
        /\ trace[i].type \in TargetTypes => trace[i].operand = trace[i].view

\* A list run without an activator whose first action moved the focus and
\* whose second action acted on the newly focused view.
C1_Witness ==
    /\ run.active
    /\ run.activator = 0
    /\ Len(trace) >= 2
    /\ trace[1].type = ACTION_TYPE_FOCUS
    /\ trace[1].focus # 0
    /\ trace[2].focus # trace[1].focus
    /\ trace[2].type = ACTION_TYPE_CLOSE
    /\ trace[2].operand = trace[2].focus
    /\ <<"close", trace[2].focus>> = calls[Len(calls)]

C3_NoUseOfDestroyedView ==
    \A i \in DOMAIN trace : ~trace[i].stale

\* The views that exist.
LiveViews == {v \in Views : views[v].alloc = "live"}

\* C4: between event handlers every view that is mapped has the drawable
\* subtree of its surface and its commit listener registered, and every
\* view that is not mapped has no commit listener registered, also after a
\* map whose subtree creation failed.
C4_MappedHasTreeAndCommit ==
    \A v \in LiveViews :
        /\ views[v].mapped => /\ views[v].surface # 0
                              /\ views[v].scene_node = views[v].surface
                              /\ views[v].commit = 1
        /\ ~views[v].mapped => views[v].commit = 0

\* C5: a view is never freed while its mapped flag is true (a freed
\* view's fields are those it had when handle_destroy freed it).
C5_FreedWhileUnmapped ==
    \A v \in Views : views[v].alloc = "freed" => ~views[v].mapped

\* A mapped window became override-redirect: its view was unmapped and
\* freed in one handler.
C5_Witness ==
    /\ last.op = "EvOverrideRedirect"
    /\ last.pre.mapped
    /\ views[last.v].alloc = "freed"
    /\ views[last.v].been_mapped
    /\ ~views[last.v].mapped

\* C6: every listener registration is removed exactly once: a view that
\* exists has exactly the listeners xwayland_surface_new linked, the commit
\* listener is linked at most once, no listener is removed that is not
\* linked or linked twice, and a freed view has no listener left linked.
C6_ListenersPaired ==
    /\ server.fault \notin {"remove_unlinked", "add_linked"}
    /\ DestroyRemoves = XwaylandListeners
    /\ \A v \in Views :
        /\ views[v].commit \in {0, 1}
        /\ views[v].alloc = "live" => views[v].listeners = XwaylandListeners
        /\ views[v].alloc = "freed" => /\ views[v].listeners = {}
                                       /\ views[v].commit = 0

\* C7: map of a mapped view and unmap of an unmapped view change nothing
\* at all, so map twice is map once and unmap twice is unmap once.
C7_MapUnmapIdempotent ==
    \A v \in LiveViews :
        LET Ins == MapInputs({0}, {1}, BOOLEAN, BOOLEAN, BOOLEAN)
        IN /\ views[v].mapped => \A in \in Ins : map(World, v, in) = World
           /\ ~views[v].mapped => unmap(World, v) = World
           /\ \A in1 \in Ins, in2 \in Ins :
                  map(map(World, v, in1), v, in2) = map(World, v, in1)
           /\ unmap(unmap(World, v), v) = unmap(World, v)

\* unmap was called on a view that had been mapped and unmapped before:
\* nothing is mapped and no commit listener is linked.
C7_Witness ==
    /\ last.op = "ImplUnmap"
    /\ ~last.pre.mapped
    /\ views[last.v].alloc = "live"
    /\ views[last.v].been_mapped
    /\ ~views[last.v].mapped
    /\ views[last.v].commit = 0

\* C8: with a pending request that has update_x set and update_y clear,
\* the commit whose extent equals the requested one sets x to requested x +
\* requested width - committed width, clears update_x and leaves y and
\* update_y as they were.
C8_ConvergingCommitAnchorsX ==
    \A v \in LiveViews :
        LET view == views[v]
            pending == view.pending
            after == handle_commit(World, v, pending.width,
                                   pending.height).views[v]
        IN (views[v].commit > 0 /\ pending.update_x /\ ~pending.update_y)
           => /\ after.x = pending.x + pending.width - after.w
              /\ after.w = pending.width
              /\ after.h = pending.height
              /\ ~after.pending.update_x
              /\ after.y = view.y
              /\ after.pending.update_y = view.pending.update_y

\* A commit of the requested extent arrived while update_x was set and
\* update_y was not: the extent changed, x is the requested one and the
\* flag is clear.
C8_Witness ==
    /\ last.op = "EvCommit"
    /\ last.pre.update_x
    /\ ~last.pre.update_y
    /\ views[last.v].w = views[last.v].pending.width
    /\ views[last.v].h = views[last.v].pending.height
    /\ views[last.v].x = views[last.v].pending.x
    /\ ~views[last.v].pending.update_x
    /\ ~views[last.v].pending.update_y

\* C9: configure leaves x, y, w and h of the view alone, replaces the whole
\* pending request by the box (the flags say whether the box's position
\* differs from the current one, whatever was pending) and sends the box
\* to the client; nothing else changes.
C9_ConfigureOnlyReplacesPending ==
    \A v \in LiveViews : \A geo \in Boxes(Pos, Size) :
        LET after == configure(World, v, geo)
        IN /\ after.views[v] =
                [views[v] EXCEPT !.pending =
                    [update_x |-> geo.x # views[v].x,
                     update_y |-> geo.y # views[v].y,
                     x |-> geo.x, y |-> geo.y,
                     width |-> geo.width, height |-> geo.height]]
           /\ \A u \in Views \ {v} : after.views[u] = views[u]
           /\ after.calls = Append(calls, <<"configure", v, geo.x, geo.y,
                                            geo.width, geo.height>>)
           /\ after.xsurf = xsurf
           /\ after.server = server

\* configure replaced a pending request that had update_x set by one that
\* leaves x where it is, and the client was sent the box.
C9_Witness ==
    /\ last.op = "ImplConfigure"
    /\ last.pre.update_x
    /\ ~views[last.v].pending.update_x
    /\ views[last.v].pending.x = views[last.v].x
    /\ calls # <<>>
    /\ calls[Len(calls)] = <<"configure", last.v,
                             views[last.v].pending.x, views[last.v].pending.y,
                             views[last.v].pending.width,
                             views[last.v].pending.height>>

\* Equal up to the case of the letters A..Z.
SameLetters(a, b) ==
    /\ Len(a) = Len(b)
    /\ \A i \in 1..Len(a) : \/ a[i] = b[i]
                            \/ a[i] \in 65..90 /\ b[i] = a[i] + 32
                            \/ b[i] \in 65..90 /\ a[i] = b[i] + 32

\* C10: every name given to action_create makes an action; its type is
\* that of the action name it equals up to case, and the sentinel type
\* when it equals none of them; running a sentinel action changes nothing
\* (no view, focus, workspace or menu, and no request is made).
C10_UnmatchedNameMakesNoOp ==
    /\ Len(run.list) = Len(run.names)
    /\ \A i \in DOMAIN run.list :
        LET n == run.names[i]
            t == run.list[i].type
        IN /\ t \in ACTION_TYPE_NONE..ACTION_TYPE_SEND_TO_DESKTOP
           /\ t # ACTION_TYPE_NONE => SameLetters(n, action_names[t + 1])
           /\ t = ACTION_TYPE_NONE =>
                \A k \in ACTION_TYPE_CLOSE..ACTION_TYPE_SEND_TO_DESKTOP :
                    ~SameLetters(n, action_names[k + 1])
    /\ \A i \in DOMAIN trace :
        trace[i].type = ACTION_TYPE_NONE => ~trace[i].changed

\* A name that is no action name (an action name cut short) made a sentinel
\* action, which ran with a mapped, focused activator and changed nothing.
C10_Witness ==
    /\ run.active
    /\ Len(trace) = 1
    /\ Len(run.names[1]) > 0
    /\ \A k \in DOMAIN action_names : ~SameLetters(run.names[1], action_names[k])
    /\ trace[1].type = ACTION_TYPE_NONE
    /\ ~trace[1].changed
    /\ run.activator # 0
    /\ views[run.activator].mapped
    /\ server.focused = run.activator

\* C11: actions_run executes the actions of the list once each, in list
\* order: while it runs, the actions executed so far are the first ones of
\* the list, one per step, and it returns only after the last one; no
\* action that does nothing and no Exit ends the list early.
C11_EveryActionOnceInOrder ==
    /\ [](run.active =>
            /\ Len(trace) = run.pc - 1
            /\ Len(trace) <= Len(run.list)
            /\ \A i \in DOMAIN trace : trace[i].type = run.list[i].type)
    /\ [][/\ (run.active /\ ~run'.active) => Len(trace) = Len(run.list)
          /\ (run.active /\ run'.active /\ trace' # trace)
                => /\ Len(trace') = Len(trace) + 1
                   /\ SubSeq(trace', 1, Len(trace)) = trace]_vars

\* Exit ran first and the action after it ran too, with its effect.
C11_Witness ==
    /\ run.active
    /\ Len(run.list) = 2
    /\ Len(trace) = 2
    /\ trace[1].type = ACTION_TYPE_EXIT
    /\ trace[2].type = ACTION_TYPE_GO_TO_DESKTOP
    /\ trace[2].changed
    /\ server.workspace_current # trace[2].workspace

\* C12: MoveToEdge and SnapToEdge without a target view reposition nothing
\* and hand no absent view to a view operation; without their argument
\* they do nothing.
C12_EdgeActionsNeedViewAndArgument ==
    /\ \A i \in DOMAIN trace :
        trace[i].type \in {ACTION_TYPE_MOVE_TO_EDGE, ACTION_TYPE_SNAP_TO_EDGE}
        => /\ run.list[i].arg = <<>> => ~trace[i].changed
           /\ trace[i].view = 0 => ~trace[i].changed
    /\ \A k \in DOMAIN calls :
        calls[k][1] \in {"view_move_to_edge", "view_snap_to_edge"}
        => calls[k][2] # 0

C19_ShowMenuAnchor ==
    (Len(trace) = 1 /\ trace[1].type = ACTION_TYPE_SHOW_MENU)
    => LET arg == run.list[1].arg
           view == trace[1].view
           context == arg = <<str_client_menu>>
           opens == arg \in KnownMenus /\ (context => view # 0)
           corner == <<"view", views[view].x, views[view].y>>
           anchor == CASE ~context -> <<"cursor">>
                       [] context /\ trace[1].ssd_part = "button_window_menu"
                            -> corner
                       [] context /\ trace[1].ssd_part = "titlebar"
                            -> <<"cursor">>
                       [] OTHER -> corner
       IN IF opens
          THEN /\ server.menu = [id |-> arg, at |-> anchor,
                                 triggered_by_view |-> view]
               /\ calls = <<<<"menu_open", arg>>>>
          ELSE ~trace[1].changed

\* The context menu was opened for a view with the cursor on its title bar,
\* beside the button: it is at the cursor and triggered by that view.
C19_Witness ==
    /\ Len(trace) = 1
    /\ trace[1].type = ACTION_TYPE_SHOW_MENU
    /\ run.list[1].arg = <<str_client_menu>>
    /\ trace[1].ssd_part = "titlebar"
    /\ trace[1].view # 0
    /\ server.menu = [id |-> <<str_client_menu>>, at |-> <<"cursor">>,
                      triggered_by_view |-> trace[1].view]

\* The workspace next to workspace w on the side the argument names, or 0.
Neighbour(w, arg) ==
    CASE arg = <<str_left>> /\ w - 1 \in 1..NumWorkspaces -> w - 1
      [] arg = <<str_right>> /\ w + 1 \in 1..NumWorkspaces -> w + 1
      [] OTHER -> 0

\* C14: a view is on one workspace, the one that was current when it was
\* created, until a SendToDesktop action whose target it is sends it to
\* the workspace its argument names from the view's own workspace; a
\* SendToDesktop that resolves to no workspace, GoToDesktop, every other
\* action and the map, unmap, commit and configure of the view leave its
\* workspace as it is.
C14_WorkspaceChangedOnlyBySendToDesktop ==
    /\ [](\A v \in LiveViews :
            /\ views[v].workspace \in 1..NumWorkspaces
            /\ \A width \in Size, height \in Size :
                 handle_commit(World, v, width, height).views[v].workspace
                     = views[v].workspace
            /\ \A geo \in Boxes(Pos, Size) :
                 configure(World, v, geo).views[v].workspace
                     = views[v].workspace)
    /\ [][\A v \in Views :
            /\ (v \notin LiveViews /\ views'[v].alloc = "live")
               => views'[v].workspace = server.workspace_current
            /\ (v \in LiveViews /\ views'[v].alloc = "live")
               => LET stepped == /\ run.active
                                 /\ run'.active
                                 /\ run'.pc = run.pc + 1
                      sent == /\ stepped
                              /\ run.list[run.pc].type
                                     = ACTION_TYPE_SEND_TO_DESKTOP
                              /\ trace'[Len(trace')].view = v
                      to == Neighbour(views[v].workspace,
                                      run.list[run.pc].arg)
                  IN views'[v].workspace
                         = IF sent /\ to # 0 THEN to
                           ELSE views[v].workspace]_vars

\* A view of workspace 1 was sent to the right while workspace 2 was the
\* current one, where nothing is to the right.
C14_Witness ==
    /\ Len(trace) = 2
    /\ trace[1].type = ACTION_TYPE_GO_TO_DESKTOP
    /\ trace[1].changed
    /\ trace[2].type = ACTION_TYPE_SEND_TO_DESKTOP
    /\ trace[2].workspace = NumWorkspaces
    /\ trace[2].changed
    /\ trace[2].view # 0
    /\ views[trace[2].view].workspace = NumWorkspaces

\* The current workspace after the i-th action of the running list.
WorkspaceAfter(i) ==
    IF i < Len(trace) THEN trace[i + 1].workspace
    ELSE server.workspace_current

C16_ReclassifiedViewIsReplaced ==
    last.op = "EvOverrideRedirect"
    => /\ server.fault = "none"
       /\ views[last.v].alloc = "freed"
       /\ ~views[last.v].mapped
       /\ views[last.v].listeners = {}
       /\ views[last.v].commit = 0
       /\ xsurf[last.v].data = 0
       /\ xsurf[last.v].state = "unmanaged"
       /\ xsurf[last.v].unmanaged_mapped = xsurf[last.v].mapped
       /\ server.focused # last.v
       /\ \A i \in DOMAIN server.order : server.order[i] # last.v

\* C18: a map that fails to create the drawable subtree reports it to the
\* client and leaves the view such that every later event for it is
\* handled: its unmap and its destroy remove no listener that is not
\* linked, and a new map of the window, with the subtree created, makes
\* it mapped with its commit listener linked.
C18_FailedMapLeavesViewUsable ==
    /\ server.fault = "none"
    /\ \A v \in LiveViews :
        Managed(v)
        => /\ ~Faulted(handle_unmap(World, v))
           /\ ~Faulted(XDestroy(World, v))
           /\ xsurf[v].mapped
              => LET W == map(World, v, PlainMap)
                 IN /\ ~Faulted(W)
                    /\ W.views[v].mapped
                    /\ W.views[v].commit = 1
                    /\ W.views[v].scene_node = xsurf[v].surface

\* C17: after the handler of an unmap event nothing went wrong and the
\* focused view, if any, is a mapped view other than the one unmapped;
\* when the view was mapped before the event, the focus is on the
\* frontmost mapped view, or on none when no view is mapped.
C17_UnmapMovesFocus ==
    last.op = "EvUnmap"
    => /\ server.fault = "none"
       /\ server.focused # last.v
       /\ server.focused # 0
          => /\ views[server.focused].alloc = "live"
             /\ views[server.focused].mapped
       /\ last.pre.mapped
          => server.focused = desktop_topmost_mapped_view(World)

\* C20: a commit of any extent, while update_x is set, leaves the view's
\* right edge x + w at the requested right edge, and while update_y is
\* set its bottom edge at the requested bottom edge; a commit whose
\* extent is not the requested one leaves the pending request and its
\* flags as they are; a commit never changes x while update_x is clear
\* nor y while update_y is clear.
C20_CommitAnchorsFarEdge ==
    \A v \in LiveViews : \A width \in Size, height \in Size :
        LET view == views[v]
            pending == view.pending
            after == handle_commit(World, v, width, height).views[v]
        IN views[v].commit > 0
           => /\ pending.update_x
                 => /\ after.w = width
                    /\ after.x + after.w = pending.x + pending.width
              /\ pending.update_y
                 => /\ after.h = height
                    /\ after.y + after.h = pending.y + pending.height
              /\ (width # pending.width \/ height # pending.height)
                 => after.pending = pending
              /\ ~pending.update_x => after.x = view.x
              /\ ~pending.update_y => after.y = view.y

\* A commit of another extent than the requested one arrived while
\* update_x was set: the flag is still set, the view has moved and its
\* right edge is the requested one.
C20_Witness ==
    /\ last.op = "EvCommit"
    /\ last.pre.update_x
    /\ views[last.v].pending.update_x
    /\ views[last.v].w # views[last.v].pending.width
    /\ views[last.v].x # views[last.v].pending.x
    /\ views[last.v].x + views[last.v].w
           = views[last.v].pending.x + views[last.v].pending.width

\* How often the last handler made the request name for view v.
Requests(cs, name, v) == Cardinality({k \in DOMAIN cs : cs[k] = <<name, v>>})

C22_MovedPositionSurvivesCommit ==
    [][/\ last'.op = "ImplMove"
          => /\ calls' # <<>>
             /\ views'[last'.v].x = calls'[Len(calls')][3]
             /\ views'[last'.v].y = calls'[Len(calls')][4]
       /\ (last.op = "ImplMove" /\ last'.op = "EvCommit")
          => /\ views'[last.v].x = views[last.v].x
             /\ views'[last.v].y = views[last.v].y]_vars

====
